---- MODULE Spec2Model ----
(***************************************************************************)
(* The table codec of toon-macro: the schema derived by                    *)
(* #[derive(ToonTable)], to_toon_table, from_toon_table, get_row and the   *)
(* cell conversions FromToonValue / IntoToonValue.                         *)
(*                                                                         *)
(* Indices are 0-based as in the Rust code; a TLA+ sequence s holds the    *)
(* element of Rust index i at s[i + 1].                                    *)
(***************************************************************************)
EXTENDS Integers, Sequences, FiniteSets, TLC

(***************************************************************************)
(* Bounds of the model.                                                    *)
(***************************************************************************)
\* Longest record slice passed to to_toon_table, and most rows of a
\* hand-written table.
MaxRows == 2

\* Largest value of #[toon(order = N)] in a declaration.
MaxOrder == 1

\* Longest column list and longest row of a hand-written table.
MaxCols == 2

\* Width in bits of the scaled-down i64 / u64 (the code has 64).
Bits == 4

I64_MIN == 0 - 2 ^ (Bits - 1)
I64_MAX == 2 ^ (Bits - 1) - 1
U64_MAX == 2 ^ Bits - 1

\* The scaled-down i32 / u32: half the width of i64 / u64.
I32_MIN == 0 - 2 ^ (Bits \div 2 - 1)
I32_MAX == 2 ^ (Bits \div 2 - 1) - 1
U32_MAX == 2 ^ (Bits \div 2) - 1

SeqsUpTo(S, n) == UNION {[1..k -> S] : k \in 0..n}

Range(seq) == {seq[k] : k \in 1..Len(seq)}

\* Option<T> of the macro's own data (rename, order)
None == [some |-> FALSE]
Some(v) == [some |-> TRUE, v |-> v]

(***************************************************************************)
(* serde_toon2::Value, the structured value the codec consumes.            *)
(***************************************************************************)
ValueNull == [tag |-> "Null"]
ValueBool(b) == [tag |-> "Bool", b |-> b]
\* Number(I64 | U64 | F64).  An F64 payload is kept as twice its value, so
\* that halves are representable: F64(3) is 1.5, F64(4) is 2.0.
ValueNumber(kind, n) == [tag |-> "Number", kind |-> kind, n |-> n]
ValueString(s) == [tag |-> "String", s |-> s]
ValueArray(items) == [tag |-> "Array", items |-> items]
ValueObject(map) == [tag |-> "Object", map |-> map]

\* Result<T, Error>
Ok(v) == [ok |-> TRUE, val |-> v]
Err(e) == [ok |-> FALSE, err |-> e]

\* enum Error (the variants the table codec produces)
InvalidTable(msg) == [kind |-> "InvalidTable", msg |-> msg]
MissingColumn(name) == [kind |-> "MissingColumn", name |-> name]
ConversionError(msg) == [kind |-> "ConversionError", msg |-> msg]
InvalidType(expected, got) == [kind |-> "InvalidType", expected |-> expected, got |-> got]
RowOutOfBounds(index, len) == [kind |-> "RowOutOfBounds", index |-> index, len |-> len]
ColumnOutOfBounds(index, len) == [kind |-> "ColumnOutOfBounds", index |-> index, len |-> len]

Serialize(msg) == [kind |-> "Serialize", msg |-> msg]
Deserialize(msg) == [kind |-> "Deserialize", msg |-> msg]

\* str::contains on a text kept as the sequence of its characters
contains(msg, pat) ==
    \E i \in 1..(Len(msg) - Len(pat) + 1) : SubSeq(msg, i, i + Len(pat) - 1) = pat

\* impl From<serde_toon2::Error> for Error, on err.to_string()
from_serde_toon2_error(msg) ==
    IF contains(msg, <<"s", "e", "r", "i", "a", "l", "i", "z", "e">>) \/ contains(msg, <<"S", "e", "r", "i", "a", "l", "i", "z", "e">>)
    THEN Serialize(msg)
    ELSE Deserialize(msg)

\* Error::invalid_type(expected, got): got is the Debug rendering of the
\* offending value, kept here as the value it renders.
invalid_type(expected, value) == InvalidType(expected, value)

(***************************************************************************)
(* Rust values of the supported field types.  A type is the sequence of    *)
(* its constructors: <<"u64">>, <<"Option", "String">>.                    *)
(***************************************************************************)
RStr(s) == [t |-> "String", s |-> s]
RInt(n) == [t |-> "int", n |-> n]
RFloat(twice) == [t |-> "f64", twice |-> twice]
RBool(b) == [t |-> "bool", b |-> b]
RNone == [t |-> "None"]
RSome(v) == [t |-> "Some", v |-> v]

\* Default::default() of a field type
Default(ty) ==
    CASE ty[1] = "Option" -> RNone
      [] ty[1] = "String" -> RStr("")
      [] ty[1] = "bool" -> RBool(FALSE)
      [] ty[1] = "f64" -> RFloat(0)
      [] OTHER -> RInt(0)

(***************************************************************************)
(* serde_toon2::Number accessors.                                          *)
(***************************************************************************)
\* Number::as_i64: Some(n) when the stored integer fits i64, None otherwise.
as_i64(num) ==
    CASE num.kind = "I64" -> Ok(num.n)
      [] num.kind = "U64" -> IF num.n <= I64_MAX THEN Ok(num.n) ELSE Err("None")
      [] OTHER -> Err("None")

\* Number::as_u64: Some(n) when the stored integer fits u64, None otherwise.
as_u64(num) ==
    CASE num.kind = "U64" -> Ok(num.n)
      [] num.kind = "I64" -> IF num.n >= 0 THEN Ok(num.n) ELSE Err("None")
      [] OTHER -> Err("None")

\* Number::as_f64: every representation widened to f64.
as_f64(num) == IF num.kind = "F64" THEN num.n ELSE 2 * num.n

(***************************************************************************)
(* FromToonValue: the read conversion of a cell (table.rs).                *)
(***************************************************************************)
from_toon_value_String(value) ==
    CASE value.tag = "String" -> Ok(RStr(value.s))
      [] value.tag = "Null" -> Ok(RStr(""))
      [] OTHER -> Err(invalid_type("string", value))

from_toon_value_i64(value) ==
    IF value.tag = "Number"
    THEN IF as_i64(value).ok
         THEN Ok(RInt(as_i64(value).val))
         ELSE Err(ConversionError("number is not an i64"))
    ELSE Err(invalid_type("i64", value))

\* from_toon_value_u64 that casts the signed value (as u64) instead of failing
from_toon_value_u64_cast(value) ==
    IF value.tag = "Number"
    THEN IF value.kind = "F64"
         THEN Err(ConversionError("number is not a u64"))
         ELSE Ok(RInt(value.n % (2 ^ Bits)))
    ELSE Err(invalid_type("u64", value))

from_toon_value_u64(value) ==
    IF value.tag = "Number"
    THEN IF as_u64(value).ok
         THEN Ok(RInt(as_u64(value).val))
         ELSE Err(ConversionError("number is not a u64"))
    ELSE Err(invalid_type("u64", value))

from_toon_value_f64(value) ==
    IF value.tag = "Number"
    THEN Ok(RFloat(as_f64(value)))
    ELSE Err(invalid_type("f64", value))

\* from_toon_value_bool that reads Null as false
from_toon_value_bool_lenient(value) ==
    CASE value.tag = "Bool" -> Ok(RBool(value.b))
      [] value.tag = "Null" -> Ok(RBool(FALSE))
      [] OTHER -> Err(invalid_type("bool", value))

from_toon_value_bool(value) ==
    IF value.tag = "Bool"
    THEN Ok(RBool(value.b))
    ELSE Err(invalid_type("bool", value))

\* The types with an impl FromToonValue in table.rs
RECURSIVE impl_FromToonValue(_)
impl_FromToonValue(ty) ==
    CASE ty[1] = "Option" -> Len(ty) > 1 /\ impl_FromToonValue(Tail(ty))
      [] OTHER -> Len(ty) = 1 /\ ty[1] \in {"String", "i64", "u64", "f64", "bool"}

\* from_toon_value whose Option<T> hands Null to T as well
RECURSIVE from_toon_value_option_delegates(_, _)
from_toon_value_option_delegates(ty, value) ==
    CASE ty[1] = "Option" ->
            LET r == from_toon_value_option_delegates(Tail(ty), value)
            IN  IF r.ok THEN Ok(RSome(r.val)) ELSE r
      [] ty[1] = "String" -> from_toon_value_String(value)
      [] ty[1] = "i64" -> from_toon_value_i64(value)
      [] ty[1] = "u64" -> from_toon_value_u64(value)
      [] ty[1] = "f64" -> from_toon_value_f64(value)
      [] ty[1] = "bool" -> from_toon_value_bool(value)

RECURSIVE from_toon_value(_, _)
from_toon_value(ty, value) ==
    CASE ty[1] = "Option" ->
            IF value.tag = "Null"
            THEN Ok(RNone)
            ELSE LET r == from_toon_value(Tail(ty), value)
                 IN  IF r.ok THEN Ok(RSome(r.val)) ELSE r
      [] ty[1] = "String" -> from_toon_value_String(value)
      [] ty[1] = "i64" -> from_toon_value_i64(value)
      [] ty[1] = "u64" -> from_toon_value_u64(value)
      [] ty[1] = "f64" -> from_toon_value_f64(value)
      [] ty[1] = "bool" -> from_toon_value_bool(value)

(***************************************************************************)
(* IntoToonValue: the write conversion of a field (table.rs).              *)
(***************************************************************************)
\* serde_toon2's Value::from of an i64, a u64 and an f64: the Number of the
\* widest signed, widest unsigned and double representation.
Value_from_i64(n) == ValueNumber("I64", n)
Value_from_u64(n) == ValueNumber("U64", n)
Value_from_f64(twice) == ValueNumber("F64", twice)

\* The types with an impl IntoToonValue in table.rs
RECURSIVE impl_IntoToonValue(_)
impl_IntoToonValue(ty) ==
    CASE ty[1] = "Option" -> Len(ty) > 1 /\ impl_IntoToonValue(Tail(ty))
      [] OTHER -> Len(ty) = 1
                  /\ ty[1] \in {"String", "&str", "i64", "u64", "i32", "u32", "f64", "bool"}

\* "*self as i64" of an i32 that zero-extends the bit pattern
as_i64_zero_extended(n) == n % 2 ^ (Bits \div 2)

\* "*self as i64" of an i32: the two's complement pattern of the i32,
\* sign-extended to the width of i64, read as an i64.
as_i64_from_i32(n) ==
    LET w == Bits \div 2
        bits == n % 2 ^ w
        extended == IF bits >= 2 ^ (w - 1) THEN bits + (2 ^ Bits - 2 ^ w) ELSE bits
    IN  IF extended >= 2 ^ (Bits - 1) THEN extended - 2 ^ Bits ELSE extended

\* "*self as u64" of a u32: the pattern of the u32, zero-extended.
as_u64_from_u32(n) == n % 2 ^ Bits

RECURSIVE to_toon_value(_, _)
to_toon_value(ty, v) ==
    CASE ty[1] = "Option" ->
            IF v.t = "None" THEN ValueNull ELSE to_toon_value(Tail(ty), v.v)
      [] ty[1] = "String" -> ValueString(v.s)
      [] ty[1] = "&str" -> ValueString(v.s)
      [] ty[1] = "i64" -> Value_from_i64(v.n)
      [] ty[1] = "u64" -> Value_from_u64(v.n)
      [] ty[1] = "i32" -> Value_from_i64(as_i64_from_i32(v.n))
      [] ty[1] = "u32" -> Value_from_u64(as_u64_from_u32(v.n))
      [] ty[1] = "f64" -> Value_from_f64(v.twice)
      [] ty[1] = "bool" -> ValueBool(v.b)

(***************************************************************************)
(* FieldAttrs::from_attrs (utils.rs): the #[toon(...)] attributes of one   *)
(* field.  An attribute is [path, metas]; a meta is a key with, for rename  *)
(* and order, the string or integer literal after the "=".                 *)
(***************************************************************************)
FieldAttrs_default == [rename |-> None, skip |-> FALSE, default |-> FALSE, order |-> None]

\* parse_meta that lets an unknown key pass
parse_meta_lenient(result, meta) ==
    CASE meta.key = "rename" -> Ok([result EXCEPT !.rename = Some(meta.lit_str)])
      [] meta.key = "skip" -> Ok([result EXCEPT !.skip = TRUE])
      [] meta.key = "default" -> Ok([result EXCEPT !.default = TRUE])
      [] meta.key = "order" -> Ok([result EXCEPT !.order = Some(meta.lit_int)])
      [] OTHER -> Ok(result)

\* The closure passed to parse_nested_meta, applied to one meta item.
parse_meta(result, meta) ==
    CASE meta.key = "rename" -> Ok([result EXCEPT !.rename = Some(meta.lit_str)])
      [] meta.key = "skip" -> Ok([result EXCEPT !.skip = TRUE])
      [] meta.key = "default" -> Ok([result EXCEPT !.default = TRUE])
      [] meta.key = "order" -> Ok([result EXCEPT !.order = Some(meta.lit_int)])
      [] OTHER -> Err("expected rename, skip, default, or order")

RECURSIVE parse_nested_meta(_, _)
parse_nested_meta(result, metas) ==
    IF metas = <<>>
    THEN Ok(result)
    ELSE LET r == parse_meta(result, Head(metas))
         IN  IF r.ok THEN parse_nested_meta(r.val, Tail(metas)) ELSE r

RECURSIVE from_attrs_loop(_, _)
from_attrs_loop(result, attrs) ==
    IF attrs = <<>>
    THEN Ok(result)
    ELSE IF Head(attrs).path # "toon"
         THEN from_attrs_loop(result, Tail(attrs))
         ELSE LET r == parse_nested_meta(result, Head(attrs).metas)
              IN  IF r.ok THEN from_attrs_loop(r.val, Tail(attrs)) ELSE r

from_attrs(attrs) == from_attrs_loop(FieldAttrs_default, attrs)

(***************************************************************************)
(* derive_toon_table_impl (table_derive.rs): the schema of a record type.  *)
(***************************************************************************)
\* The comparator of field_infos.sort_by: -1 Less, 0 Equal, 1 Greater.
order_cmp(a, b) ==
    CASE a.order.some /\ b.order.some ->
            IF a.order.v < b.order.v THEN -1
            ELSE IF a.order.v > b.order.v THEN 1 ELSE 0
      [] a.order.some /\ ~b.order.some -> -1
      [] ~a.order.some /\ b.order.some -> 1
      [] OTHER -> 0

\* insert_sorted that puts an element before the elements it compares
\* Equal to
RECURSIVE insert_sorted_before_equal(_, _)
insert_sorted_before_equal(sorted, f) ==
    IF sorted = <<>>
    THEN <<f>>
    ELSE IF order_cmp(Head(sorted), f) >= 0
         THEN <<f>> \o sorted
         ELSE <<Head(sorted)>> \o insert_sorted_before_equal(Tail(sorted), f)

\* slice::sort_by is stable: an element is inserted after every element
\* that does not compare Greater than it.
RECURSIVE insert_sorted(_, _)
insert_sorted(sorted, f) ==
    IF sorted = <<>>
    THEN <<f>>
    ELSE IF order_cmp(Head(sorted), f) = 1
         THEN <<f>> \o sorted
         ELSE <<Head(sorted)>> \o insert_sorted(Tail(sorted), f)

RECURSIVE sort_by(_, _)
sort_by(sorted, rest) ==
    IF rest = <<>>
    THEN sorted
    ELSE sort_by(insert_sorted(sorted, Head(rest)), Tail(rest))

\* collect_field_infos that names every column after its field
RECURSIVE collect_field_infos_no_rename(_, _)
collect_field_infos_no_rename(acc, fields) ==
    IF fields = <<>>
    THEN Ok(acc)
    ELSE LET field == Head(fields)
             attrs == from_attrs(field.attrs)
         IN  IF ~attrs.ok
             THEN attrs
             ELSE IF attrs.val.skip
                  THEN collect_field_infos_no_rename(acc, Tail(fields))
                  ELSE collect_field_infos_no_rename(
                           Append(acc,
                                  [name |-> field.name,
                                   ty |-> field.ty,
                                   column_name |-> field.name,
                                   default |-> attrs.val.default,
                                   order |-> attrs.val.order]),
                           Tail(fields))

\* The field loop: parse the attributes, drop skipped fields, resolve the
\* column name.  The first attribute error aborts the derivation.
RECURSIVE collect_field_infos(_, _)
collect_field_infos(acc, fields) ==
    IF fields = <<>>
    THEN Ok(acc)
    ELSE LET field == Head(fields)
             attrs == from_attrs(field.attrs)
         IN  IF ~attrs.ok
             THEN attrs
             ELSE IF attrs.val.skip
                  THEN collect_field_infos(acc, Tail(fields))
                  ELSE collect_field_infos(
                           Append(acc,
                                  [name |-> field.name,
                                   ty |-> field.ty,
                                   column_name |-> IF attrs.val.rename.some
                                                   THEN attrs.val.rename.v
                                                   ELSE field.name,
                                   default |-> attrs.val.default,
                                   order |-> attrs.val.order]),
                           Tail(fields))

derive_toon_table_impl(input) ==
    IF input.data # "struct"
    THEN Err("ToonTable can only be derived for structs")
    ELSE IF input.fields_kind # "named"
         THEN Err("ToonTable can only be derived for structs with named fields")
         ELSE LET infos == collect_field_infos(<<>>, input.fields)
              IN  IF infos.ok THEN Ok(sort_by(<<>>, infos.val)) ELSE infos

\* const COLUMNS of the generated impl
COLUMNS(field_infos) == [k \in 1..Len(field_infos) |-> field_infos[k].column_name]

(***************************************************************************)
(* The generated impl ToonTable (table_derive.rs) and the helpers of       *)
(* table.rs it calls.                                                      *)
(***************************************************************************)
\* internal::new_map and internal::map_insert
new_map == [k \in {} |-> ValueNull]

\* map_insert that keeps the value of a key already in the map
map_insert_keep(map, key, value) ==
    [k \in DOMAIN map \cup {key} |-> IF k \in DOMAIN map THEN map[k] ELSE value]

map_insert(map, key, value) ==
    [k \in DOMAIN map \cup {key} |-> IF k = key THEN value ELSE map[k]]

\* row_cells with every cell taken from the first field
row_cells_first(field_infos, row) ==
    [k \in 1..Len(field_infos) |-> to_toon_value(field_infos[1].ty, row[field_infos[1].name])]

\* row_cells with the cells in the reverse of schema order
row_cells_reversed(field_infos, row) ==
    [k \in 1..Len(field_infos) |->
        to_toon_value(field_infos[Len(field_infos) + 1 - k].ty,
                      row[field_infos[Len(field_infos) + 1 - k].name])]

\* The cells of one record: vec![ to_toon_value(&row.f), ... ] in schema order.
row_cells(field_infos, row) ==
    [k \in 1..Len(field_infos) |-> to_toon_value(field_infos[k].ty, row[field_infos[k].name])]

\* to_toon_table with the header taken from the field names
to_toon_table_field_names(field_infos, rows) ==
    ValueObject([k \in {"columns", "rows"} |->
        IF k = "columns"
        THEN ValueArray([c \in 1..Len(field_infos) |-> ValueString(field_infos[c].name)])
        ELSE ValueArray([r \in 1..Len(rows) |-> ValueArray(row_cells(field_infos, rows[r]))])])

\* to_toon_table with the header left empty when there is no record
to_toon_table_header_from_rows(field_infos, rows) ==
    ValueObject([k \in {"columns", "rows"} |->
        IF k = "columns"
        THEN ValueArray(IF rows = <<>>
                        THEN <<>>
                        ELSE [c \in 1..Len(field_infos) |->
                                 ValueString(field_infos[c].column_name)])
        ELSE ValueArray([r \in 1..Len(rows) |-> ValueArray(row_cells(field_infos, rows[r]))])])

to_toon_table(field_infos, rows) ==
    LET columns == [k \in 1..Len(field_infos) |-> ValueString(COLUMNS(field_infos)[k])]
        data_rows == [r \in 1..Len(rows) |-> ValueArray(row_cells(field_infos, rows[r]))]
        map1 == map_insert(new_map, "columns", ValueArray(columns))
        map2 == map_insert(map1, "rows", ValueArray(data_rows))
    IN  ValueObject(map2)

\* collect_columns that leaves out the entries that are not strings
RECURSIVE collect_columns_skip(_, _)
collect_columns_skip(acc, arr) ==
    IF arr = <<>>
    THEN Ok(acc)
    ELSE IF Head(arr).tag = "String"
         THEN collect_columns_skip(Append(acc, Head(arr).s), Tail(arr))
         ELSE collect_columns_skip(acc, Tail(arr))

\* The collect() over the column entries: the first non-string entry fails.
RECURSIVE collect_columns(_, _)
collect_columns(acc, arr) ==
    IF arr = <<>>
    THEN Ok(acc)
    ELSE IF Head(arr).tag = "String"
         THEN collect_columns(Append(acc, Head(arr).s), Tail(arr))
         ELSE Err(InvalidTable("column names must be strings"))

extract_columns(value) ==
    IF value.tag = "Object"
    THEN IF "columns" \notin DOMAIN value.map
         THEN Err(InvalidTable("missing 'columns' field"))
         ELSE IF value.map["columns"].tag = "Array"
              THEN collect_columns(<<>>, value.map["columns"].items)
              ELSE Err(InvalidTable("'columns' must be an array"))
    ELSE Err(InvalidTable("table must be an object"))

extract_rows(value) ==
    IF value.tag = "Object"
    THEN IF "rows" \notin DOMAIN value.map
         THEN Err(InvalidTable("missing 'rows' field"))
         ELSE IF value.map["rows"].tag = "Array"
              THEN Ok(value.map["rows"].items)
              ELSE Err(InvalidTable("'rows' must be an array"))
    ELSE Err(InvalidTable("table must be an object"))

\* get_cell that takes a row that is not an array for an empty one
get_cell_out_of_bounds(row, index) ==
    IF row.tag = "Array"
    THEN IF index < Len(row.items)
         THEN Ok(row.items[index + 1])
         ELSE Err(ColumnOutOfBounds(index, Len(row.items)))
    ELSE Err(ColumnOutOfBounds(index, 0))

\* get_cell that reports the length the index asks for
get_cell_len_needed(row, index) ==
    IF row.tag = "Array"
    THEN IF index < Len(row.items)
         THEN Ok(row.items[index + 1])
         ELSE Err(ColumnOutOfBounds(index, index + 1))
    ELSE Err(InvalidTable("row must be an array"))

get_cell(row, index) ==
    IF row.tag = "Array"
    THEN IF index < Len(row.items)
         THEN Ok(row.items[index + 1])
         ELSE Err(ColumnOutOfBounds(index, Len(row.items)))
    ELSE Err(InvalidTable("row must be an array"))

\* column_map_loop with the positions counted from one
RECURSIVE column_map_loop_from_one(_, _, _)
column_map_loop_from_one(column_map, columns, idx) ==
    IF idx = Len(columns)
    THEN column_map
    ELSE column_map_loop_from_one(map_insert(column_map, columns[idx + 1], idx + 1),
                                  columns, idx + 1)

\* column_map_loop that keeps the first position of a name
RECURSIVE column_map_loop_first_wins(_, _, _)
column_map_loop_first_wins(column_map, columns, idx) ==
    IF idx = Len(columns)
    THEN column_map
    ELSE column_map_loop_first_wins(
             IF columns[idx + 1] \in DOMAIN column_map
             THEN column_map
             ELSE map_insert(column_map, columns[idx + 1], idx),
             columns, idx + 1)

\* for (idx, col) in columns.iter().enumerate() { column_map.insert(col, idx) }
RECURSIVE column_map_loop(_, _, _)
column_map_loop(column_map, columns, idx) ==
    IF idx = Len(columns)
    THEN column_map
    ELSE column_map_loop(map_insert(column_map, columns[idx + 1], idx), columns, idx + 1)

\* from_table_field that treats every field as required
from_table_field_required(f, column_map, row) ==
    IF f.column_name \notin DOMAIN column_map
    THEN Err(MissingColumn(f.column_name))
    ELSE LET cell == get_cell(row, column_map[f.column_name])
         IN  IF cell.ok THEN from_toon_value(f.ty, cell.val) ELSE cell

\* from_table_field that reports the field name of a missing column
from_table_field_field_name(f, column_map, row) ==
    IF f.column_name \in DOMAIN column_map
    THEN LET cell == get_cell(row, column_map[f.column_name])
         IN  IF cell.ok THEN from_toon_value(f.ty, cell.val) ELSE cell
    ELSE IF f.default THEN Ok(Default(f.ty)) ELSE Err(MissingColumn(f.name))

\* from_table_field whose defaulted field takes the default for a cell that
\* is there and cannot be used
from_table_field_default_on_error(f, column_map, row) ==
    IF f.default
    THEN IF f.column_name \in DOMAIN column_map
         THEN LET cell == get_cell(row, column_map[f.column_name])
                  read == IF cell.ok THEN from_toon_value(f.ty, cell.val) ELSE cell
              IN  IF read.ok THEN read ELSE Ok(Default(f.ty))
         ELSE Ok(Default(f.ty))
    ELSE IF f.column_name \notin DOMAIN column_map
         THEN Err(MissingColumn(f.column_name))
         ELSE LET cell == get_cell(row, column_map[f.column_name])
              IN  IF cell.ok THEN from_toon_value(f.ty, cell.val) ELSE cell

\* One field initialiser of the struct literal (from_table_fields).
from_table_field(f, column_map, row) ==
    IF f.default
    THEN IF f.column_name \in DOMAIN column_map
         THEN LET cell == get_cell(row, column_map[f.column_name])
              IN  IF cell.ok THEN from_toon_value(f.ty, cell.val) ELSE cell
         ELSE Ok(Default(f.ty))
    ELSE IF f.column_name \notin DOMAIN column_map
         THEN Err(MissingColumn(f.column_name))
         ELSE LET cell == get_cell(row, column_map[f.column_name])
              IN  IF cell.ok THEN from_toon_value(f.ty, cell.val) ELSE cell

\* Self { f1: .., f2: .. }: the initialisers run in schema order and the
\* first error returns from from_toon_table.  The literal names the fields
\* of field_infos and no others.
RECURSIVE struct_literal(_, _, _, _)
struct_literal(item, field_infos, column_map, row) ==
    IF field_infos = <<>>
    THEN Ok(item)
    ELSE LET f == Head(field_infos)
             r == from_table_field(f, column_map, row)
         IN  IF r.ok
             THEN struct_literal(map_insert(item, f.name, r.val), Tail(field_infos),
                                 column_map, row)
             ELSE r

\* decode_rows that returns the records gathered before a failing row
RECURSIVE decode_rows_partial(_, _, _, _)
decode_rows_partial(result, field_infos, column_map, rows) ==
    IF rows = <<>>
    THEN Ok(result)
    ELSE LET item == struct_literal(new_map, field_infos, column_map, Head(rows))
         IN  IF item.ok
             THEN decode_rows_partial(Append(result, item.val), field_infos, column_map,
                                      Tail(rows))
             ELSE IF result = <<>> THEN item ELSE Ok(result)

\* for row in rows { let item = Self {..}; result.push(item); }
RECURSIVE decode_rows(_, _, _, _)
decode_rows(result, field_infos, column_map, rows) ==
    IF rows = <<>>
    THEN Ok(result)
    ELSE LET item == struct_literal(new_map, field_infos, column_map, Head(rows))
         IN  IF item.ok
             THEN decode_rows(Append(result, item.val), field_infos, column_map, Tail(rows))
             ELSE item

\* from_toon_table that takes the cells in schema order, whatever the header
from_toon_table_positional(field_infos, value) ==
    LET columns == extract_columns(value)
    IN  IF ~columns.ok
        THEN columns
        ELSE LET column_map == column_map_loop(new_map, COLUMNS(field_infos), 0)
                 rows == extract_rows(value)
             IN  IF ~rows.ok
                 THEN rows
                 ELSE decode_rows(<<>>, field_infos, column_map, rows.val)

\* from_toon_table that rejects a column name the schema does not have
from_toon_table_known_columns(field_infos, value) ==
    LET columns == extract_columns(value)
    IN  IF ~columns.ok
        THEN columns
        ELSE IF ~(Range(columns.val) \subseteq Range(COLUMNS(field_infos)))
             THEN Err(InvalidTable("unknown column"))
             ELSE LET column_map == column_map_loop(new_map, columns.val, 0)
                      rows == extract_rows(value)
                  IN  IF ~rows.ok
                      THEN rows
                      ELSE decode_rows(<<>>, field_infos, column_map, rows.val)

\* from_toon_table that extracts the rows before the columns
from_toon_table_rows_first(field_infos, value) ==
    LET rows == extract_rows(value)
    IN  IF ~rows.ok
        THEN rows
        ELSE LET columns == extract_columns(value)
             IN  IF ~columns.ok
                 THEN columns
                 ELSE decode_rows(<<>>, field_infos,
                                  column_map_loop(new_map, columns.val, 0), rows.val)

from_toon_table(field_infos, value) ==
    LET columns == extract_columns(value)
    IN  IF ~columns.ok
        THEN columns
        ELSE LET column_map == column_map_loop(new_map, columns.val, 0)
                 rows == extract_rows(value)
             IN  IF ~rows.ok
                 THEN rows
                 ELSE decode_rows(<<>>, field_infos, column_map, rows.val)

\* get_row with the two fields of RowOutOfBounds exchanged
get_row_swapped(field_infos, value, index) ==
    LET rows == from_toon_table(field_infos, value)
    IN  IF ~rows.ok
        THEN rows
        ELSE IF index < Len(rows.val)
             THEN Ok(rows.val[index + 1])
             ELSE Err(RowOutOfBounds(Len(rows.val), index))

\* get_row that checks the index against the rows before decoding them
get_row_bounds_first(field_infos, value, index) ==
    LET raw == extract_rows(value)
        rows == from_toon_table(field_infos, value)
    IN  IF raw.ok /\ index >= Len(raw.val)
        THEN Err(RowOutOfBounds(index, Len(raw.val)))
        ELSE IF ~rows.ok
             THEN rows
             ELSE Ok(rows.val[index + 1])

\* ToonTable::get_row (table.rs)
get_row(field_infos, value, index) ==
    LET rows == from_toon_table(field_infos, value)
    IN  IF ~rows.ok
        THEN rows
        ELSE IF index < Len(rows.val)
             THEN Ok(rows.val[index + 1])
             ELSE Err(RowOutOfBounds(index, Len(rows.val)))

(***************************************************************************)
(* The inputs: record type declarations, record slices, hand-written       *)
(* table values and cells.                                                 *)
(***************************************************************************)
\* The #[toon(...)] attribute list that states the given configuration.
Metas(rename, skip, default, order) ==
    (IF rename.some THEN <<[key |-> "rename", lit_str |-> rename.v]>> ELSE <<>>)
    \o (IF skip THEN <<[key |-> "skip"]>> ELSE <<>>)
    \o (IF default THEN <<[key |-> "default"]>> ELSE <<>>)
    \o (IF order.some THEN <<[key |-> "order", lit_int |-> order.v]>> ELSE <<>>)

Attrs(rename, skip, default, order) ==
    IF Metas(rename, skip, default, order) = <<>>
    THEN <<>>
    ELSE <<[path |-> "toon", metas |-> Metas(rename, skip, default, order)]>>

\* No order, the least one and the greatest one
Orders == {None, Some(0), Some(MaxOrder)}

\* The declarations of one field: skipped, or any mix of rename and order.
\* The default flag, which only tells on a table that lacks the column, is
\* drawn in HandInputs.
\* The custom names a field may be given: a fresh name and, for the field
\* name, the name of the other field.
Renames(name) ==
    {None, Some("x")} \cup (IF name = "name" THEN {Some("id")} ELSE {})

FieldDecls(name, ty) ==
    {[name |-> name, ty |-> ty, attrs |-> Attrs(None, TRUE, FALSE, None)]}
    \cup {[name |-> name, ty |-> ty, attrs |-> Attrs(rn, FALSE, FALSE, ord)] :
             rn \in Renames(name), ord \in Orders}

Types ==
    {<<"String">>, <<"i64">>, <<"u64">>, <<"f64">>, <<"bool">>,
     <<"Option", "String">>, <<"Option", "i64">>, <<"Option", "bool">>}

StructInput(fields) == [data |-> "struct", fields_kind |-> "named", fields |-> fields]

\* Record types with one field of any supported type, and with two fields
\* id: u64 and name: String or u64, under any of these declarations.
OneFieldInputs ==
    {StructInput(<<f>>) : f \in UNION {FieldDecls("id", ty) : ty \in Types}}

TwoFieldInputs ==
    {StructInput(<<f, g>>) :
        f \in FieldDecls("id", <<"u64">>),
        g \in UNION {FieldDecls("name", ty) : ty \in {<<"String">>, <<"u64">>}}}

\* The record types hand-written tables are decoded into: one field of a
\* text, integer, boolean or optional type, required or defaulted; and
\* id: u64 renamed to x with name: String (ordered first or not), each
\* required or defaulted.
HandTypes == {<<"String">>, <<"u64">>, <<"bool">>, <<"Option", "i64">>}

HandInputs ==
    {StructInput(<<[name |-> "id", ty |-> ty, attrs |-> Attrs(None, FALSE, df, None)]>>) :
        ty \in HandTypes, df \in BOOLEAN}
    \cup {StructInput(<<[name |-> "id", ty |-> <<"u64">>,
                         attrs |-> Attrs(rn, FALSE, df1, None)],
                        [name |-> "name", ty |-> <<"String">>,
                         attrs |-> Attrs(None, FALSE, df2, ord)]>>) :
             rn \in {Some("x")}, df1 \in BOOLEAN, df2 \in BOOLEAN,
             ord \in {None, Some(0)}}

\* Attributes of a field: #[toon(..)] with a known key, with an unknown
\* key (alone, after skip, after rename) and an attribute of another path.
FieldAttributes ==
    {[path |-> "toon", metas |-> <<[key |-> "rename", lit_str |-> n]>>] : n \in {"x", "y"}}
    \cup {[path |-> "toon", metas |-> <<[key |-> "order", lit_int |-> n]>>] :
              n \in {0, MaxOrder}}
    \cup {[path |-> "toon", metas |-> <<[key |-> k]>>] : k \in {"skip", "default", "other"}}
    \cup {[path |-> "toon", metas |-> <<[key |-> "skip"], [key |-> "other"]>>],
           [path |-> "toon", metas |-> <<[key |-> "other"], [key |-> "rename", lit_str |-> "x"]>>],
           [path |-> "serde", metas |-> <<[key |-> "other"]>>]}

\* A struct of one field under up to two attributes.
AttrInputs ==
    {StructInput(<<[name |-> "id", ty |-> <<"String">>, attrs |-> a]>>) :
        a \in SeqsUpTo(FieldAttributes, 2)}

\* Derive targets that are not structs with named fields.
OtherInputs ==
    {[data |-> d, fields_kind |-> "none", fields |-> <<>>] : d \in {"enum", "union"}}
    \cup {[data |-> "struct", fields_kind |-> k, fields |-> <<>>] : k \in {"unnamed", "unit"}}

\* Messages of a serde_toon2::Error, as sequences of characters.
Messages ==
    {<<"c", "a", "n", "n", "o", "t", " ", "d", "e", "s", "e", "r", "i", "a", "l", "i", "z", "e">>,
     <<"D", "e", "s", "e", "r", "i", "a", "l", "i", "z", "e", " ", "f", "a", "i", "l", "e", "d">>,
     <<"c", "a", "n", "n", "o", "t", " ", "s", "e", "r", "i", "a", "l", "i", "z", "e">>,
     <<"S", "e", "r", "i", "a", "l", "i", "z", "e", " ", "f", "a", "i", "l", "e", "d">>,
     <<"u", "n", "e", "x", "p", "e", "c", "t", "e", "d", " ", "e", "o", "f">>,
     <<"s", "e", "r", "i", "a", "l">>,
     <<>>}

Inputs == OneFieldInputs \cup TwoFieldInputs \cup HandInputs \cup AttrInputs \cup OtherInputs

\* Values of a field type
RECURSIVE Vals(_)
Vals(ty) ==
    CASE ty[1] = "Option" -> {RNone} \cup {RSome(v) : v \in Vals(Tail(ty))}
      [] ty[1] = "String" -> {RStr(""), RStr("a")}
      [] ty[1] = "i64" -> {RInt(I64_MIN), RInt(1)}
      [] ty[1] = "u64" -> {RInt(1), RInt(U64_MAX)}
      [] ty[1] = "f64" -> {RFloat(3), RFloat(4)}
      [] ty[1] = "bool" -> {RBool(FALSE), RBool(TRUE)}

\* The types documented as supported for table fields (toon-macro-derive
\* lib.rs, "Supported Types"), with Option<T> at some of them.
DocTypes ==
    {<<"String">>, <<"&str">>, <<"i32">>, <<"i64">>, <<"u32">>, <<"u64">>, <<"f64">>,
     <<"bool">>, <<"Option", "String">>, <<"Option", "i32">>, <<"Option", "u32">>,
     <<"Option", "bool">>}

\* Values handed to the write conversion: the ends of each integer range
\* and the values next to zero.
RECURSIVE WriteVals(_)
WriteVals(ty) ==
    CASE ty[1] = "Option" -> {RNone} \cup {RSome(v) : v \in WriteVals(Tail(ty))}
      [] ty[1] \in {"String", "&str"} -> {RStr(""), RStr("a")}
      [] ty[1] = "i32" -> {RInt(I32_MIN), RInt(0 - 1), RInt(0), RInt(I32_MAX)}
      [] ty[1] = "i64" -> {RInt(I64_MIN), RInt(0 - 1), RInt(0), RInt(I64_MAX)}
      [] ty[1] = "u32" -> {RInt(0), RInt(U32_MAX)}
      [] ty[1] = "u64" -> {RInt(0), RInt(I64_MAX + 1), RInt(U64_MAX)}
      [] ty[1] = "f64" -> {RFloat(0 - 3), RFloat(4)}
      [] ty[1] = "bool" -> {RBool(FALSE), RBool(TRUE)}

\* The records of a declared struct: every declared field, skipped or not.
Records(fields) ==
    {rec \in [{fields[k].name : k \in 1..Len(fields)} ->
                UNION {Vals(fields[k].ty) : k \in 1..Len(fields)}] :
        \A k \in 1..Len(fields) : rec[fields[k].name] \in Vals(fields[k].ty)}

\* Cells of any variant
Cells ==
    {ValueNull, ValueBool(TRUE), ValueString("a"), ValueString(""),
     ValueNumber("I64", I64_MIN), ValueNumber("I64", 1), ValueNumber("U64", 1),
     ValueNumber("U64", U64_MAX), ValueNumber("F64", 3), ValueNumber("F64", 4),
     ValueArray(<<>>), ValueObject(new_map)}

\* Rows of a hand-written table with one row: a non-array, or any array of
\* up to MaxCols of these cells.
OneRowCells == {ValueNull, ValueString("a"), ValueNumber("I64", 1)}

OneRows == {ValueString("row")} \cup {ValueArray(c) : c \in SeqsUpTo(OneRowCells, MaxCols)}

\* Rows of a hand-written table with several rows: a non-array, MaxCols
\* copies of one of these cells, or a row one cell shorter.
ManyRowCells == {ValueNull, ValueNumber("I64", 1)}

ManyRows ==
    {ValueString("row")}
    \cup {ValueArray([k \in 1..MaxCols |-> c]) : c \in ManyRowCells}
    \cup {ValueArray([k \in 1..(MaxCols - 1) |-> ValueNumber("I64", 1)])}

\* No row, one row, or MaxRows rows of which those before the last are alike
HandRows ==
    {<<>>} \cup {<<r>> : r \in OneRows}
    \cup {[k \in 1..MaxRows |-> IF k < MaxRows THEN r ELSE last] :
            r \in ManyRows, last \in ManyRows}

\* Column lists: the schema's own names, a foreign name and a non-string,
\* each at most once in any order, or a schema name twice.
HandColumns(field_infos) ==
    LET entries == {ValueString(n) : n \in Range(COLUMNS(field_infos)) \cup {"zz"}}
                   \cup {ValueBool(TRUE)}
    IN  {c \in SeqsUpTo(entries, MaxCols) : \A i, j \in 1..Len(c) : c[i] = c[j] => i = j}
        \cup {<<ValueString(n), ValueString(n)>> : n \in Range(COLUMNS(field_infos))}

\* An object with the given keys
TableObject(keys, columns, rws) ==
    ValueObject([k \in keys |->
        CASE k = "columns" -> columns
          [] k = "rows" -> rws
          [] OTHER -> ValueNull])

\* Table-shaped values: any column list with any rows.  Mis-shaped values:
\* a non-object, and objects with either key absent or not an array, or
\* with a third key.
HandTables(field_infos) ==
    {TableObject({"columns", "rows"}, ValueArray(c), ValueArray(r)) :
        c \in HandColumns(field_infos), r \in HandRows}
    \cup {ValueNull}
    \cup {TableObject(keys, c, r) :
            keys \in SUBSET {"columns", "rows", "note"},
            c \in {ValueString("id"), ValueArray(<<ValueBool(TRUE)>>),
                   ValueArray(<<>>),
                   ValueArray([k \in 1..Len(field_infos) |->
                                  ValueString(COLUMNS(field_infos)[k])])},
            r \in {ValueNull, ValueArray(<<>>),
                   ValueArray(<<ValueArray([k \in 1..Len(field_infos) |-> ValueNull])>>)}}

(***************************************************************************)
(* The state: a declared record type, its derived schema, and the last     *)
(* call on it with its result.                                             *)
(***************************************************************************)
VARIABLES
    input,      \* the DeriveInput: the declared struct
    derived,    \* the result of derive_toon_table_impl: Ok(field_infos) or an error
    pc,         \* "declared", "ready", "encoded", "written", "decoded", "got_row",
                \* "read", "wrote", "converted"
    rows,       \* the records last passed to to_toon_table
    value,      \* the table Value last encoded or written by hand
    decoded,    \* the result of the last from_toon_table
    index,      \* the index of the last get_row
    got,        \* the result of the last get_row
    cell,       \* the last from_toon_value: [ty, value, result], or the last
                \* to_toon_value: [ty, rust, written]
    converted   \* the last Error::from(serde_toon2::Error): [msg, error]

vars == <<input, derived, pc, rows, value, decoded, index, got, cell, converted>>

Unset == [unset |-> TRUE]

Init ==
    /\ input \in Inputs
    /\ derived = Unset
    /\ pc = "declared"
    /\ rows = <<>>
    /\ value = Unset
    /\ decoded = Unset
    /\ index = 0
    /\ got = Unset
    /\ cell = Unset
    /\ converted = Unset

\* #[derive(ToonTable)] expands on the declaration.
Derive ==
    /\ pc = "declared"
    /\ derived' = derive_toon_table_impl(input)
    /\ pc' = "ready"
    /\ UNCHANGED <<input, rows, value, decoded, index, got, cell, converted>>

\* T::to_toon_table(&records)
Encode ==
    /\ pc = "ready"
    /\ derived.ok
    /\ \E records \in SeqsUpTo(Records(input.fields), MaxRows) :
          /\ rows' = records
          /\ value' = to_toon_table(derived.val, records)
    /\ pc' = "encoded"
    /\ UNCHANGED <<input, derived, decoded, index, got, cell, converted>>

\* A caller obtains a table value from elsewhere (toon!, a parser).
Write ==
    /\ pc = "ready"
    /\ derived.ok
    /\ input \in HandInputs
    /\ \E v \in HandTables(derived.val) : value' = v
    /\ pc' = "written"
    /\ UNCHANGED <<input, derived, rows, decoded, index, got, cell, converted>>

\* T::from_toon_table(&value)
Decode ==
    /\ pc \in {"encoded", "written"}
    /\ decoded' = from_toon_table(derived.val, value)
    /\ pc' = "decoded"
    /\ UNCHANGED <<input, derived, rows, value, index, got, cell, converted>>

\* T::get_row(&value, index)
GetRow ==
    /\ pc \in {"encoded", "written"}
    /\ \E i \in {0, MaxRows - 1, MaxRows} :
          /\ index' = i
          /\ got' = get_row(derived.val, value, i)
    /\ pc' = "got_row"
    /\ UNCHANGED <<input, derived, rows, value, decoded, cell, converted>>

\* FromToonValue::from_toon_value(cell) at the type of one of the fields
ReadCell ==
    /\ pc = "ready"
    /\ derived.ok
    /\ \E k \in 1..Len(derived.val), v \in Cells :
          cell' = [ty |-> derived.val[k].ty, value |-> v,
                   result |-> from_toon_value(derived.val[k].ty, v)]
    /\ pc' = "read"
    /\ UNCHANGED <<input, derived, rows, value, decoded, index, got, converted>>

\* IntoToonValue::to_toon_value(&v) at a documented type that has the impl
WriteCell ==
    /\ pc = "ready"
    /\ \E ty \in {t \in DocTypes : impl_IntoToonValue(t)} : \E v \in WriteVals(ty) :
          cell' = [ty |-> ty, rust |-> v, written |-> to_toon_value(ty, v)]
    /\ pc' = "wrote"
    /\ UNCHANGED <<input, derived, rows, value, decoded, index, got, converted>>

\* Error::from(err) of a serde_toon2::Error with the given message
Convert ==
    /\ pc = "ready"
    /\ \E msg \in Messages :
          converted' = [msg |-> msg, error |-> from_serde_toon2_error(msg)]
    /\ pc' = "converted"
    /\ UNCHANGED <<input, derived, rows, value, decoded, index, got, cell>>

Next == Derive \/ Encode \/ Write \/ Decode \/ GetRow \/ ReadCell \/ WriteCell \/ Convert

Spec == Init /\ [][Next]_vars

(***************************************************************************)
(* Properties.                                                             *)
(***************************************************************************)
\* The schema in force
Schema == derived.val

\* value has the two keys, a header of strings and an array of rows
IsTable(v) ==
    /\ v.tag = "Object"
    /\ {"columns", "rows"} \subseteq DOMAIN v.map
    /\ v.map["columns"].tag = "Array"
    /\ \A k \in 1..Len(v.map["columns"].items) : v.map["columns"].items[k].tag = "String"
    /\ v.map["rows"].tag = "Array"

HeaderOf(v) == [k \in 1..Len(v.map["columns"].items) |-> v.map["columns"].items[k].s]

RowsOf(v) == v.map["rows"].items

\* a table whose rows are arrays as long as its header of distinct names
WellFormed(v) ==
    /\ IsTable(v)
    /\ \A i, j \in 1..Len(HeaderOf(v)) : HeaderOf(v)[i] = HeaderOf(v)[j] => i = j
    /\ \A r \in 1..Len(RowsOf(v)) :
          /\ RowsOf(v)[r].tag = "Array"
          /\ Len(RowsOf(v)[r].items) = Len(HeaderOf(v))

\* the position (from 1) of a name in a header that holds it once
PosOf(header, name) == CHOOSE i \in 1..Len(header) : header[i] = name

\* the declared field of the struct with the given name
DeclOf(name) == input.fields[CHOOSE k \in 1..Len(input.fields) : input.fields[k].name = name]

\* the configuration a declaration states
\* the positions <<attribute, item>> of a key among the toon attributes
MetasAt(decl, key) ==
    {p \in UNION {{<<a, m>> : m \in 1..Len(decl.attrs[a].metas)} : a \in 1..Len(decl.attrs)} :
        /\ decl.attrs[p[1]].path = "toon"
        /\ decl.attrs[p[1]].metas[p[2]].key = key}

HasMeta(decl, key) == MetasAt(decl, key) # {}

\* the last item with the key
MetaOf(decl, key) ==
    LET p == CHOOSE p \in MetasAt(decl, key) :
                 \A q \in MetasAt(decl, key) : q[1] < p[1] \/ (q[1] = p[1] /\ q[2] <= p[2])
    IN  decl.attrs[p[1]].metas[p[2]]

ColumnNameOf(decl) == IF HasMeta(decl, "rename") THEN MetaOf(decl, "rename").lit_str ELSE decl.name

\* C1: Round-trip: for every schema (any mix of rename, order and skip, any
\* column names) and every record sequence R, decoding the encoding of R
\* succeeds and returns R, element by element in the same order.
C1_RoundTrip ==
    (pc = "decoded" /\ value = to_toon_table(Schema, rows)) => decoded = Ok(rows)

\* C2: for a well-formed table whose header holds every schema column name,
\* from_toon_table returns one record per row, in row order, each field being
\* the read conversion of the cell under the field's column name, wherever
\* that name stands in the header.
C2_DecodeByName ==
    (/\ pc = "decoded"
     /\ WellFormed(value)
     /\ \A k \in 1..Len(Schema) : Schema[k].column_name \in Range(HeaderOf(value)))
    => LET header == HeaderOf(value)
           read(r, k) == from_toon_value(Schema[k].ty,
                             RowsOf(value)[r].items[PosOf(header, Schema[k].column_name)])
       IN  IF \A r \in 1..Len(RowsOf(value)), k \in 1..Len(Schema) : read(r, k).ok
           THEN /\ decoded.ok
                /\ Len(decoded.val) = Len(RowsOf(value))
                /\ \A r \in 1..Len(RowsOf(value)), k \in 1..Len(Schema) :
                      decoded.val[r][Schema[k].name] = read(r, k).val
           ELSE ~decoded.ok

\* a table in another column order than the schema's decoded to a record
C2_Witness ==
    /\ pc = "decoded"
    /\ WellFormed(value)
    /\ Len(Schema) = 2
    /\ HeaderOf(value) = <<Schema[2].column_name, Schema[1].column_name>>
    /\ decoded.ok
    /\ Len(decoded.val) = 1
    /\ decoded.val[1][Schema[1].name] # decoded.val[1][Schema[2].name]

\* C3: to_toon_table returns an Object with exactly the keys "columns" and
\* "rows", and "columns" is the array of the strings of COLUMNS, in order,
\* whatever the records and the declaration order.
C3_EncodeHeader ==
    pc = "encoded"
    => /\ value.tag = "Object"
       /\ DOMAIN value.map = {"columns", "rows"}
       /\ value.map["columns"] =
              ValueArray([k \in 1..Len(Schema) |-> ValueString(COLUMNS(Schema)[k])])

\* records encoded under a schema that renames and reorders the fields
C3_Witness ==
    /\ pc = "encoded"
    /\ Len(rows) = MaxRows
    /\ Len(Schema) = 2
    /\ Schema[1].name = "name"
    /\ Schema[2].column_name = "x"

\* C4: the rows of to_toon_table are one array per record in input order,
\* each of len(COLUMNS) cells, the k-th cell being the write conversion of
\* the field that the k-th column name belongs to.
C4_EncodeRows ==
    pc = "encoded"
    => LET rs == value.map["rows"]
       IN  /\ rs.tag = "Array"
           /\ Len(rs.items) = Len(rows)
           /\ \A r \in 1..Len(rows) :
                 /\ rs.items[r].tag = "Array"
                 /\ Len(rs.items[r].items) = Len(COLUMNS(Schema))
                 /\ \A k \in 1..Len(Schema) :
                       LET decl == DeclOf(Schema[k].name)
                       IN  /\ COLUMNS(Schema)[k] = ColumnNameOf(decl)
                           /\ rs.items[r].items[k] =
                                  to_toon_value(decl.ty, rows[r][decl.name])

\* two different records encoded under a schema that puts name before id
C4_Witness ==
    /\ pc = "encoded"
    /\ Len(rows) = 2
    /\ rows[1] # rows[2]
    /\ Len(Schema) = 2
    /\ Schema[1].name = "name"
    /\ value.map["rows"].items[1].items[1] # value.map["rows"].items[1].items[2]

\* C5: the encoding of no records has the full header and an empty array of
\* rows, and decoding it succeeds with no records.
C5_EmptyTable ==
    /\ (pc = "encoded" /\ rows = <<>>)
       => /\ value.map["columns"] =
                 ValueArray([k \in 1..Len(Schema) |-> ValueString(COLUMNS(Schema)[k])])
          /\ value.map["rows"] = ValueArray(<<>>)
    /\ (pc = "decoded" /\ rows = <<>> /\ IsTable(value)
        /\ HeaderOf(value) = COLUMNS(Schema) /\ RowsOf(value) = <<>>)
       => decoded = Ok(<<>>)

\* the encoding of no records under a schema with columns, decoded
C5_Witness ==
    /\ pc = "decoded"
    /\ rows = <<>>
    /\ Len(Schema) = 2
    /\ DOMAIN value.map = {"columns", "rows"}
    /\ HeaderOf(value) = COLUMNS(Schema)
    /\ RowsOf(value) = <<>>
    /\ decoded = Ok(<<>>)

\* the schema columns a header lacks: defaulted ones and required ones
AbsentDefault(header) ==
    {k \in 1..Len(Schema) : Schema[k].default /\ Schema[k].column_name \notin Range(header)}

AbsentRequired(header) ==
    {k \in 1..Len(Schema) : ~Schema[k].default /\ Schema[k].column_name \notin Range(header)}

Min(S) == CHOOSE k \in S : \A j \in S : k <= j

\* the last position (from 1) of a name in a header
LastPosOf(header, name) ==
    CHOOSE i \in 1..Len(header) : header[i] = name /\ \A j \in (i + 1)..Len(header) : header[j] # name

\* descriptor f gets a value from the row: its cell is there and converts,
\* or its column is absent and it is defaulted
FieldReads(f, header, row) ==
    IF f.column_name \in Range(header)
    THEN /\ row.tag = "Array"
         /\ LastPosOf(header, f.column_name) <= Len(row.items)
         /\ from_toon_value(f.ty, row.items[LastPosOf(header, f.column_name)]).ok
    ELSE f.default

\* C6: when the header lacks the name of a defaulted schema column and the
\* table is otherwise decodable, from_toon_table succeeds and the field is the
\* Default of its type in every record, for any number of rows.
C6_DefaultFallback ==
    (pc = "decoded" /\ IsTable(value) /\ AbsentDefault(HeaderOf(value)) # {})
    => LET absent == AbsentDefault(HeaderOf(value))
           others == [k \in 1..Len(Schema) |-> IF k \in absent THEN <<>> ELSE <<Schema[k]>>]
           Flat[k \in 0..Len(Schema)] == IF k = 0 THEN <<>> ELSE Flat[k - 1] \o others[k]
       IN  from_toon_table(Flat[Len(Schema)], value).ok
           => /\ decoded.ok
              /\ Len(decoded.val) = Len(RowsOf(value))
              /\ \A r \in 1..Len(decoded.val), k \in absent :
                    decoded.val[r][Schema[k].name] = Default(Schema[k].ty)

\* two rows decoded with a defaulted column absent and another one read
C6_Witness ==
    /\ pc = "decoded"
    /\ IsTable(value)
    /\ Len(Schema) = 2
    /\ Cardinality(AbsentDefault(HeaderOf(value))) = 1
    /\ AbsentRequired(HeaderOf(value)) = {}
    /\ decoded.ok
    /\ Len(decoded.val) = 2

RECURSIVE Accepts(_, _)
Accepts(ty, tag) ==
    CASE ty[1] = "Option" -> tag = "Null" \/ Accepts(Tail(ty), tag)
      [] ty[1] = "String" -> tag \in {"String", "Null"}
      [] ty[1] = "bool" -> tag = "Bool"
      [] OTHER -> tag = "Number"

ExpectedName(ty) ==
    LET base == ty[Len(ty)]
    IN  IF base = "String" THEN "string" ELSE base

\* C8: a cell of a variant the target type does not accept fails with
\* InvalidType naming the target scalar type (T for Option<T>) and is never
\* coerced; an accepted variant never fails with InvalidType.  A decode whose
\* first conversion meets such a cell fails with that error.
C8_TypeMismatch ==
    /\ pc = "read"
       => IF Accepts(cell.ty, cell.value.tag)
          THEN cell.result.ok \/ cell.result.err.kind # "InvalidType"
          ELSE /\ ~cell.result.ok
               /\ cell.result.err.kind = "InvalidType"
               /\ cell.result.err.expected = ExpectedName(cell.ty)
    /\ (/\ pc = "decoded" /\ IsTable(value) /\ RowsOf(value) # <<>> /\ Len(Schema) > 0
        /\ Schema[1].column_name \in Range(HeaderOf(value))
        /\ RowsOf(value)[1].tag = "Array"
        /\ LastPosOf(HeaderOf(value), Schema[1].column_name) <= Len(RowsOf(value)[1].items)
        /\ ~Accepts(Schema[1].ty,
                    RowsOf(value)[1].items[LastPosOf(HeaderOf(value), Schema[1].column_name)].tag))
       => /\ ~decoded.ok
          /\ decoded.err.kind = "InvalidType"
          /\ decoded.err.expected = ExpectedName(Schema[1].ty)

\* a String cell read as Option<i64> fails with InvalidType expecting i64
C8_Witness ==
    /\ pc = "read"
    /\ cell.ty = <<"Option", "i64">>
    /\ cell.value.tag = "String"
    /\ ~cell.result.ok
    /\ cell.result.err.kind = "InvalidType"
    /\ cell.result.err.expected = "i64"

\* C9: a Number cell holding an integer reads into i64 (u64) as that integer
\* when it is in the range of i64 (u64) and fails with ConversionError
\* otherwise; no Number cell ever reads as another value than its own.
C9_IntegerReads ==
    (pc = "read" /\ cell.ty \in {<<"i64">>, <<"u64">>} /\ cell.value.tag = "Number")
    => LET n == cell.value.n
           lo == IF cell.ty = <<"i64">> THEN I64_MIN ELSE 0
           hi == IF cell.ty = <<"i64">> THEN I64_MAX ELSE U64_MAX
       IN  /\ cell.value.kind \in {"I64", "U64"}
              => IF lo <= n /\ n <= hi
                 THEN cell.result = Ok(RInt(n))
                 ELSE ~cell.result.ok /\ cell.result.err.kind = "ConversionError"
           /\ cell.value.kind = "F64"
              => IF cell.result.ok
                 THEN cell.result.val.n * 2 = n
                 ELSE cell.result.err.kind = "ConversionError"

\* the least i64 read as u64 fails with ConversionError
C9_Witness ==
    /\ pc = "read"
    /\ cell.ty = <<"u64">>
    /\ cell.value = ValueNumber("I64", I64_MIN)
    /\ ~cell.result.ok
    /\ cell.result.err.kind = "ConversionError"

\* C10: on a table that decodes to n records, get_row(value, index) is the
\* record at index when index < n, and RowOutOfBounds{index, len: n} when
\* index >= n.
C10_GetRow ==
    (pc = "got_row" /\ from_toon_table(Schema, value).ok)
    => LET records == from_toon_table(Schema, value).val
       IN  IF index < Len(records)
           THEN got = Ok(records[index + 1])
           ELSE got = Err(RowOutOfBounds(index, Len(records)))

\* index MaxRows asked of a table of one record
C10_Witness ==
    /\ pc = "got_row"
    /\ from_toon_table(Schema, value).ok
    /\ Len(from_toon_table(Schema, value).val) = 1
    /\ index = MaxRows
    /\ got = Err(RowOutOfBounds(MaxRows, 1))

\* the outcome of descriptor f on one row, told from the header: the cell
\* under the last occurrence of its column name, or the fallback of an
\* absent column
PairResult(f, header, row) ==
    IF f.column_name \notin Range(header)
    THEN IF f.default THEN Ok(Default(f.ty)) ELSE Err(MissingColumn(f.column_name))
    ELSE LET i == LastPosOf(header, f.column_name)
         IN  IF row.tag # "Array"
             THEN Err(InvalidTable("row must be an array"))
             ELSE IF i > Len(row.items)
                  THEN Err(ColumnOutOfBounds(i - 1, Len(row.items)))
                  ELSE from_toon_value(f.ty, row.items[i])

\* the (row, descriptor) pairs of a table that fail, and the first of them
\* by rows in table order and descriptors in schema order
FailingPairs(v) ==
    {p \in (1..Len(RowsOf(v))) \X (1..Len(Schema)) :
        ~PairResult(Schema[p[2]], HeaderOf(v), RowsOf(v)[p[1]]).ok}

FirstPair(S) ==
    CHOOSE p \in S : \A q \in S : p[1] < q[1] \/ (p[1] = q[1] /\ p[2] <= q[2])

\* C11: decode is fail-fast and all-or-nothing: when some (row, descriptor)
\* pair of a table fails, from_toon_table returns an error and no record, and
\* the error is that of the first failing pair by rows in table order and,
\* within a row, descriptors in schema order; when none fails it returns one
\* record per row.
C11_FailFast ==
    (pc = "decoded" /\ IsTable(value))
    => LET failing == FailingPairs(value)
           first == FirstPair(failing)
       IN  IF failing = {}
           THEN decoded.ok /\ Len(decoded.val) = Len(RowsOf(value))
           ELSE decoded = Err(PairResult(Schema[first[2]], HeaderOf(value),
                                         RowsOf(value)[first[1]]).err)

\* the first row gives a full record of two fields, the second row fails,
\* and only the error of the second row is returned
C11_Witness ==
    /\ pc = "decoded"
    /\ IsTable(value)
    /\ Len(Schema) = 2
    /\ Len(RowsOf(value)) = 2
    /\ FailingPairs(value) # {}
    /\ \A p \in FailingPairs(value) : p[1] = 2
    /\ DOMAIN decoded = {"ok", "err"}
    /\ decoded.err = PairResult(Schema[FirstPair(FailingPairs(value))[2]],
                                HeaderOf(value), RowsOf(value)[2]).err

\* an Object without the keys other than columns and rows
WithoutOtherKeys(v) == ValueObject([k \in DOMAIN v.map \cap {"columns", "rows"} |-> v.map[k]])

\* C12: from_toon_table fails with InvalidTable when the value is not an
\* Object, when columns is absent, not an Array or holds a non-String (even
\* under a name no descriptor refers to), when rows is absent or not an
\* Array; keys other than columns and rows change nothing.
C12_ShapeValidation ==
    pc = "decoded"
    => /\ ~IsTable(value) => (~decoded.ok /\ decoded.err.kind = "InvalidTable")
       /\ value.tag = "Object" => decoded = from_toon_table(Schema, WithoutOtherKeys(value))

\* every schema column is in the header and the one row reads, but the
\* header also holds a non-string
C12_Witness ==
    /\ pc = "decoded"
    /\ value.tag = "Object"
    /\ DOMAIN value.map = {"columns", "rows"}
    /\ value.map["columns"].tag = "Array"
    /\ value.map["rows"].tag = "Array"
    /\ Len(Schema) = 1
    /\ Len(value.map["columns"].items) = 2
    /\ value.map["columns"].items[1] = ValueString(Schema[1].column_name)
    /\ value.map["columns"].items[2].tag = "Bool"
    /\ Len(value.map["rows"].items) = 1
    /\ value.map["rows"].items[1].tag = "Array"
    /\ Len(value.map["rows"].items[1].items) = 2
    /\ from_toon_value(Schema[1].ty, value.map["rows"].items[1].items[1]).ok
    /\ decoded = Err(InvalidTable("column names must be strings"))

\* the position of a field in the declaration, and the declared fields
\* that are not skipped
DeclIndex(name) == CHOOSE k \in 1..Len(input.fields) : input.fields[k].name = name

NonSkipped == {k \in 1..Len(input.fields) : ~HasMeta(input.fields[k], "skip")}

\* C13: the schema holds the non-skipped fields, each once; a field with an
\* explicit order stands before every field without one, explicit orders
\* ascend, and fields of equal explicit order, and fields without one, keep
\* their declaration order; so without order attributes COLUMNS is the
\* declaration order.
C13_SchemaOrder ==
    (pc = "ready" /\ derived.ok)
    => /\ Len(Schema) = Cardinality(NonSkipped)
       /\ {Schema[k].name : k \in 1..Len(Schema)} = {input.fields[k].name : k \in NonSkipped}
       /\ \A i, j \in 1..Len(Schema) :
             i < j
             => LET a == DeclOf(Schema[i].name)
                    b == DeclOf(Schema[j].name)
                IN  /\ HasMeta(b, "order")
                       => /\ HasMeta(a, "order")
                          /\ MetaOf(a, "order").lit_int <= MetaOf(b, "order").lit_int
                    /\ (\/ ~HasMeta(a, "order") /\ ~HasMeta(b, "order")
                        \/ /\ HasMeta(a, "order") /\ HasMeta(b, "order")
                           /\ MetaOf(a, "order").lit_int = MetaOf(b, "order").lit_int)
                       => DeclIndex(a.name) < DeclIndex(b.name)
       /\ (\A k \in NonSkipped : ~HasMeta(input.fields[k], "order"))
          => \A i, j \in 1..Len(Schema) :
                i < j => DeclIndex(Schema[i].name) < DeclIndex(Schema[j].name)

\* two fields of the same explicit order keep their declaration order
C13_Witness ==
    /\ pc = "ready"
    /\ derived.ok
    /\ Len(Schema) = 2
    /\ Schema[1].order = Some(MaxOrder)
    /\ Schema[2].order = Some(MaxOrder)
    /\ DeclIndex(Schema[1].name) = 1
    /\ DeclIndex(Schema[2].name) = 2

\* the declared fields, not skipped, that are given a custom column name
Renamed == {k \in NonSkipped : HasMeta(input.fields[k], "rename")}

\* C14: a field with a custom column name contributes that name to COLUMNS,
\* and its field name appears neither in COLUMNS nor in the columns of an
\* encoded table; a field without one contributes its field name.
C14_Rename ==
    /\ (pc = "ready" /\ derived.ok)
       => /\ \A k \in 1..Len(Schema) :
                COLUMNS(Schema)[k] = ColumnNameOf(DeclOf(Schema[k].name))
          /\ \A k \in Renamed : input.fields[k].name \notin Range(COLUMNS(Schema))
    /\ pc = "encoded"
       => \A k \in Renamed : input.fields[k].name \notin Range(HeaderOf(value))

\* C14 (amended): a field with a custom column name contributes that name to
\* COLUMNS and a field without one its field name; the field name of a field
\* with a custom name appears in COLUMNS, and in the columns of an encoded
\* table, only where it is the custom name configured for a field.
C14_RenameEntry ==
    /\ (pc = "ready" /\ derived.ok)
       => /\ \A k \in 1..Len(Schema) :
                COLUMNS(Schema)[k] = ColumnNameOf(DeclOf(Schema[k].name))
          /\ \A k \in Renamed :
                input.fields[k].name \in Range(COLUMNS(Schema))
                => \E j \in Renamed : ColumnNameOf(input.fields[j]) = input.fields[k].name
    /\ pc = "encoded"
       => /\ HeaderOf(value) = [k \in 1..Len(Schema) |-> ColumnNameOf(DeclOf(Schema[k].name))]
          /\ \A k \in Renamed :
                input.fields[k].name \in Range(HeaderOf(value))
                => \E j \in Renamed : ColumnNameOf(input.fields[j]) = input.fields[k].name

\* records encoded under a schema that renames id and keeps name: the
\* header holds the custom name, name, and not id
C14_Witness ==
    /\ pc = "encoded"
    /\ Len(rows) > 0
    /\ Renamed = {DeclIndex("id")}
    /\ Len(Schema) = 2
    /\ Range(HeaderOf(value)) = {ColumnNameOf(DeclOf("id")), "name"}
    /\ "id" \notin Range(HeaderOf(value))

\* C15: a skipped field has no entry in COLUMNS and no cell in an encoded
\* row, decode requires no column for it, and a record type with a skipped
\* field is still decoded: the encoding of its records decodes to records of
\* the type, every field of the struct holding a value.
C15_SkipInvisible ==
    /\ (pc = "ready" /\ derived.ok)
       => \A k \in 1..Len(input.fields) :
             HasMeta(input.fields[k], "skip")
             => input.fields[k].name \notin {Schema[j].name : j \in 1..Len(Schema)}
    /\ pc = "encoded"
       => \A r \in 1..Len(rows) :
             Len(value.map["rows"].items[r].items) = Cardinality(NonSkipped)
    /\ (pc = "decoded" /\ value = to_toon_table(Schema, rows))
       => /\ decoded.ok
          /\ \A r \in 1..Len(decoded.val) :
                DOMAIN decoded.val[r] = {input.fields[k].name : k \in 1..Len(input.fields)}

\* C16: a Null cell reads as the empty string at String and as None at every
\* Option<T>, Option<String> included; a cell that is not Null reads at
\* Option<T> as Some(x) when it reads as x at T, and fails with T's error
\* otherwise.
C16_NullLeniency ==
    pc = "read"
    => /\ (cell.ty = <<"String">> /\ cell.value = ValueNull) => cell.result = Ok(RStr(""))
       /\ cell.ty[1] = "Option"
          => IF cell.value = ValueNull
             THEN cell.result = Ok(RNone)
             ELSE LET r == from_toon_value(Tail(cell.ty), cell.value)
                  IN  cell.result = IF r.ok THEN Ok(RSome(r.val)) ELSE r

\* Null read as Option<String> is None
C16_Witness ==
    /\ pc = "read"
    /\ cell.ty = <<"Option", "String">>
    /\ cell.value = ValueNull
    /\ cell.result = Ok(RNone)
    /\ from_toon_value(<<"String">>, cell.value) = Ok(RStr(""))

\* C17: an i32 or i64 is written as the I64 Number of the same value, a u32
\* or u64 as the U64 Number of the same value, a bool as Bool, a String as
\* the same String, an absent Option<T> as Null and a present one as T's
\* written value; what is written is a Value, never an error.
C17_WriteConversion ==
    pc = "wrote"
    => /\ cell.written.tag \in {"Null", "Bool", "Number", "String"}
       /\ cell.ty[1] \in {"i32", "i64"} => cell.written = ValueNumber("I64", cell.rust.n)
       /\ cell.ty[1] \in {"u32", "u64"} => cell.written = ValueNumber("U64", cell.rust.n)
       /\ cell.ty[1] = "bool" => cell.written = ValueBool(cell.rust.b)
       /\ cell.ty[1] = "String" => cell.written = ValueString(cell.rust.s)
       /\ cell.ty[1] = "Option"
          => IF cell.rust = RNone
             THEN cell.written = ValueNull
             ELSE cell.written = to_toon_value(Tail(cell.ty), cell.rust.v)

\* a negative i32 is written as the I64 Number of the same negative value
C17_Witness ==
    /\ pc = "wrote"
    /\ cell.ty = <<"i32">>
    /\ cell.rust = RInt(0 - 1)
    /\ cell.written = ValueNumber("I64", 0 - 1)

\* C18: every type documented as supported for table fields has the write
\* conversion and the read conversion: a type that was just written can be
\* read back.
C18_SupportedTypes ==
    pc = "wrote" => (impl_IntoToonValue(cell.ty) /\ impl_FromToonValue(cell.ty))

\* the injective maps of 1..n to itself
Perms(n) == {p \in [1..n -> 1..n] : \A i, j \in 1..n : p[i] = p[j] => i = j}

\* the table with the header and the cells of every row rearranged by p
Permuted(v, p) ==
    ValueObject([k \in DOMAIN v.map |->
        CASE k = "columns" ->
                ValueArray([c \in 1..Len(v.map["columns"].items) |->
                               v.map["columns"].items[p[c]]])
          [] k = "rows" ->
                ValueArray([r \in 1..Len(RowsOf(v)) |->
                               ValueArray([c \in 1..Len(RowsOf(v)[r].items) |->
                                              RowsOf(v)[r].items[p[c]]])])
          [] OTHER -> v.map[k]])

\* C19: on a table of pairwise distinct column names whose rows are as long
\* as the header, rearranging the header and the cells of every row by one
\* permutation leaves the result of from_toon_table as it is.
C19_ColumnPermutation ==
    (pc = "decoded" /\ WellFormed(value))
    => \A p \in Perms(Len(HeaderOf(value))) :
          from_toon_table(Schema, Permuted(value, p)) = decoded

\* a table of two columns in schema order, its rows holding different cells
\* in the two columns, decoded to its records
C19_Witness ==
    /\ pc = "decoded"
    /\ WellFormed(value)
    /\ Len(Schema) = 2
    /\ HeaderOf(value) = COLUMNS(Schema)
    /\ Len(RowsOf(value)) = MaxRows
    /\ \A r \in 1..MaxRows : RowsOf(value)[r].items[1] # RowsOf(value)[r].items[2]
    /\ decoded.ok
    /\ Permuted(value, [c \in 1..2 |-> 3 - c]) # value

\* the rows of a table that are not arrays
NonArrayRows(v) == {r \in 1..Len(RowsOf(v)) : RowsOf(v)[r].tag # "Array"}

\* the descriptors that look at a row or fail without one: all but the
\* defaulted ones whose column the header lacks
Looked(header) ==
    {k \in 1..Len(Schema) : Schema[k].column_name \in Range(header) \/ ~Schema[k].default}

SetCell(v, r, i, c) ==
    ValueObject([v.map EXCEPT !["rows"] =
        ValueArray([RowsOf(v) EXCEPT ![r] = ValueArray([RowsOf(v)[r].items EXCEPT ![i] = c])])])

AppendCell(v, r, c) ==
    ValueObject([v.map EXCEPT !["rows"] =
        ValueArray([RowsOf(v) EXCEPT ![r] = ValueArray(Append(RowsOf(v)[r].items, c))])])

WithHeader(v, header) ==
    ValueObject([v.map EXCEPT !["columns"] =
        ValueArray([k \in 1..Len(header) |-> ValueString(header[k])])])

\* every (row, descriptor) pair before the pair (r, k), by rows and then
\* descriptors, gets a value
ReadsBefore(header, rs, r, k) ==
    /\ \A r2 \in 1..(r - 1), k2 \in 1..Len(Schema) : FieldReads(Schema[k2], header, rs[r2])
    /\ \A k2 \in 1..(k - 1) : FieldReads(Schema[k2], header, rs[r])

Occurrences(header, name) == {i \in 1..Len(header) : header[i] = name}

\* Values put in a cell that is not read: one of each of four variants
UnreadCells ==
    {ValueNull, ValueString("a"), ValueNumber("I64", 1), ValueObject(new_map)}

\* C22: when a schema column name stands at several indices of the header,
\* its descriptor reads the cell at the greatest of them in every row, and
\* the cells at the other ones are never read: any Value put there leaves
\* the result as it is.
C22_DuplicateColumns ==
    (pc = "decoded" /\ IsTable(value))
    => LET header == HeaderOf(value)
           rs == RowsOf(value)
       IN  \A k \in 1..Len(Schema) :
              LET occ == Occurrences(header, Schema[k].column_name)
                  last == LastPosOf(header, Schema[k].column_name)
              IN  Cardinality(occ) > 1
                  => /\ decoded.ok
                        => \A r \in 1..Len(rs) :
                              /\ rs[r].tag = "Array"
                              /\ last <= Len(rs[r].items)
                              /\ decoded.val[r][Schema[k].name] =
                                     from_toon_value(Schema[k].ty, rs[r].items[last]).val
                     /\ \A r \in 1..Len(rs), i \in occ \ {last}, c \in UnreadCells :
                           (rs[r].tag = "Array" /\ i <= Len(rs[r].items))
                           => from_toon_table(Schema, SetCell(value, r, i, c)) = decoded

\* the name stands twice, the first cell cannot be read at the field type
\* and the record holds the second one
C22_Witness ==
    /\ pc = "decoded"
    /\ IsTable(value)
    /\ Len(Schema) = 1
    /\ HeaderOf(value) = <<Schema[1].column_name, Schema[1].column_name>>
    /\ Len(RowsOf(value)) = 1
    /\ RowsOf(value)[1].tag = "Array"
    /\ Len(RowsOf(value)[1].items) = 2
    /\ ~from_toon_value(Schema[1].ty, RowsOf(value)[1].items[1]).ok
    /\ decoded.ok
    /\ decoded.val[1][Schema[1].name] =
           from_toon_value(Schema[1].ty, RowsOf(value)[1].items[2]).val

\* two descriptors of one column name
DupSchema == Len(Schema) = 2 /\ Schema[1].column_name = Schema[2].column_name

\* C23: when two non-skipped fields resolve to one column name, COLUMNS and
\* every encoded table hold the name twice, and decoding an encoded table
\* succeeds with both fields of every record carrying the value of the field
\* that is later in the schema.
C23_DuplicateSchemaNames ==
    /\ (pc = "encoded" /\ DupSchema)
       => /\ COLUMNS(Schema) = <<Schema[1].column_name, Schema[1].column_name>>
          /\ HeaderOf(value) = COLUMNS(Schema)
    /\ (pc = "decoded" /\ DupSchema /\ value = to_toon_table(Schema, rows))
       => /\ decoded.ok
          /\ Len(decoded.val) = Len(rows)
          /\ \A r \in 1..Len(rows), k \in 1..2 :
                decoded.val[r][Schema[k].name] = rows[r][Schema[2].name]

\* C23 (amended): when two non-skipped fields resolve to one column name,
\* COLUMNS and every encoded table hold the name twice, and decoding an
\* encoded table reads both fields of every record from the cell of the
\* field that is later in the schema, each at its own type: fields of one
\* type both carry the later field's value, and when that cell does not read
\* at the type of the earlier field decode fails with the error of that read.
C23_DuplicateSchemaNamesRead ==
    /\ (pc = "encoded" /\ DupSchema)
       => /\ COLUMNS(Schema) = <<Schema[1].column_name, Schema[1].column_name>>
          /\ HeaderOf(value) = COLUMNS(Schema)
    /\ (pc = "decoded" /\ DupSchema /\ value = to_toon_table(Schema, rows))
       => LET later(r) == to_toon_value(Schema[2].ty, rows[r][Schema[2].name])
              read(r, k) == from_toon_value(Schema[k].ty, later(r))
          IN  /\ IF \A r \in 1..Len(rows), k \in 1..2 : read(r, k).ok
                 THEN /\ decoded.ok
                      /\ Len(decoded.val) = Len(rows)
                      /\ \A r \in 1..Len(rows), k \in 1..2 :
                            decoded.val[r][Schema[k].name] = read(r, k).val
                 ELSE decoded = Err(read(1, 1).err)
              /\ Schema[1].ty = Schema[2].ty
                 => /\ decoded.ok
                    /\ \A r \in 1..Len(rows), k \in 1..2 :
                          decoded.val[r][Schema[k].name] = rows[r][Schema[2].name]

\* two fields of one type on one column name, encoded with different values
\* and decoded: the earlier field carries the value of the later one
C23_Witness ==
    /\ pc = "decoded"
    /\ DupSchema
    /\ Schema[1].ty = Schema[2].ty
    /\ Len(rows) = MaxRows
    /\ value = to_toon_table(Schema, rows)
    /\ rows[1][Schema[1].name] # rows[1][Schema[2].name]
    /\ decoded.ok
    /\ decoded.val[1][Schema[1].name] = rows[1][Schema[2].name]

\* Values put where no descriptor reads
ExtraCells == {ValueString("a"), ValueObject(new_map)}

\* the header positions the schema resolves
Resolved(header) ==
    {LastPosOf(header, Schema[k].column_name) :
        k \in {j \in 1..Len(Schema) : Schema[j].column_name \in Range(header)}}

\* the same records, or failure on both sides
SameOutcome(a, b) == a.ok = b.ok /\ (a.ok => a = b)

\* C24: columns under names of no descriptor and cells at indices no
\* descriptor resolves to, those past the end of the header included, are
\* never read: putting any Value there, adding such a cell to a row, adding
\* such a column or changing its name changes neither the decoded records
\* nor whether decode succeeds.
C24_ExtraIgnored ==
    (pc = "decoded" /\ IsTable(value))
    => LET header == HeaderOf(value)
           rs == RowsOf(value)
           arrays == {r \in 1..Len(rs) : rs[r].tag = "Array"}
           resolved == Resolved(header)
       IN  /\ \A r \in arrays, c \in ExtraCells :
                 /\ \A i \in (1..Len(rs[r].items)) \ resolved :
                       from_toon_table(Schema, SetCell(value, r, i, c)) = decoded
                 /\ Len(rs[r].items) + 1 \notin resolved
                    => SameOutcome(from_toon_table(Schema, AppendCell(value, r, c)), decoded)
           /\ from_toon_table(Schema, WithHeader(value, Append(header, "yy"))) = decoded
           /\ \A i \in 1..Len(header) :
                 header[i] \notin Range(COLUMNS(Schema))
                 => from_toon_table(Schema, WithHeader(value, [header EXCEPT ![i] = "yy"]))
                        = decoded

\* a row with a cell past the end of the header, under a header that holds
\* a name of no descriptor, decoded to a record
C24_Witness ==
    /\ pc = "decoded"
    /\ IsTable(value)
    /\ Len(Schema) = 1
    /\ Len(HeaderOf(value)) = 1
    /\ HeaderOf(value)[1] = Schema[1].column_name
    /\ Len(RowsOf(value)) = 1
    /\ RowsOf(value)[1].tag = "Array"
    /\ Len(RowsOf(value)[1].items) = 2
    /\ ~from_toon_value(Schema[1].ty, RowsOf(value)[1].items[2]).ok
    /\ decoded.ok
    /\ Len(decoded.val) = 1

\* the schema with no descriptor defaulted
AllRequired(field_infos) ==
    [k \in 1..Len(field_infos) |-> [field_infos[k] EXCEPT !.default = FALSE]]

\* C25: when the header holds the column name of every defaulted descriptor,
\* decode is what it is with every descriptor required: a defaulted field
\* whose cell is there is the read of that cell, and a row too short, a row
\* that is not an Array and a cell of the wrong variant or range fail with
\* ColumnOutOfBounds, InvalidTable, and InvalidType or ConversionError; the
\* default never stands in for such a cell.
C25_DefaultOnlyWhenAbsent ==
    (pc = "decoded" /\ IsTable(value) /\ AbsentDefault(HeaderOf(value)) = {})
    => LET header == HeaderOf(value)
           rs == RowsOf(value)
       IN  /\ decoded = from_toon_table(AllRequired(Schema), value)
           /\ decoded.ok
              => \A r \in 1..Len(rs), k \in 1..Len(Schema) :
                    Schema[k].default
                    => decoded.val[r][Schema[k].name] =
                           from_toon_value(Schema[k].ty,
                               rs[r].items[LastPosOf(header, Schema[k].column_name)]).val
           /\ (/\ rs # <<>> /\ Len(Schema) > 0 /\ Schema[1].default
               /\ ~FieldReads(Schema[1], header, rs[1]))
              => /\ ~decoded.ok
                 /\ decoded.err.kind =
                        IF rs[1].tag # "Array"
                        THEN "InvalidTable"
                        ELSE IF Len(rs[1].items) < LastPosOf(header, Schema[1].column_name)
                             THEN "ColumnOutOfBounds"
                             ELSE IF Accepts(Schema[1].ty,
                                         rs[1].items[LastPosOf(header,
                                             Schema[1].column_name)].tag)
                                  THEN "ConversionError"
                                  ELSE "InvalidType"

\* a defaulted field whose column is there with a cell of the wrong variant:
\* decode fails with InvalidType
C25_Witness ==
    /\ pc = "decoded"
    /\ IsTable(value)
    /\ Len(Schema) = 1
    /\ Schema[1].default
    /\ HeaderOf(value) = <<Schema[1].column_name>>
    /\ Len(RowsOf(value)) = 1
    /\ RowsOf(value)[1].tag = "Array"
    /\ Len(RowsOf(value)[1].items) = 1
    /\ ~decoded.ok
    /\ decoded.err.kind = "InvalidType"

\* what is wrong with the value or its columns, and with its rows ("" when
\* nothing is)
ColumnsFault(v) ==
    CASE v.tag # "Object" -> "table must be an object"
      [] v.tag = "Object" /\ "columns" \notin DOMAIN v.map -> "missing 'columns' field"
      [] v.tag = "Object" /\ "columns" \in DOMAIN v.map /\ v.map["columns"].tag # "Array" ->
            "'columns' must be an array"
      [] OTHER ->
            IF \E k \in 1..Len(v.map["columns"].items) : v.map["columns"].items[k].tag # "String"
            THEN "column names must be strings"
            ELSE ""

RowsFault(v) ==
    CASE "rows" \notin DOMAIN v.map -> "missing 'rows' field"
      [] "rows" \in DOMAIN v.map /\ v.map["rows"].tag # "Array" -> "'rows' must be an array"
      [] OTHER -> ""

\* C26: decode checks the value and its columns first, then its rows, and
\* only then the rows one by one: a fault of the columns is the InvalidTable
\* reported whatever the rows are, and a fault of the rows is the
\* InvalidTable reported whatever columns the header lacks.
C26_ValidationOrder ==
    pc = "decoded"
    => IF ColumnsFault(value) # ""
       THEN decoded = Err(InvalidTable(ColumnsFault(value)))
       ELSE RowsFault(value) # "" => decoded = Err(InvalidTable(RowsFault(value)))

\* columns is not an array and rows is absent or not an array: the fault of
\* the columns is reported
C26_Witness ==
    /\ pc = "decoded"
    /\ value.tag = "Object"
    /\ "columns" \in DOMAIN value.map
    /\ value.map["columns"].tag # "Array"
    /\ RowsFault(value) # ""
    /\ decoded = Err(InvalidTable("'columns' must be an array"))

\* C27: when from_toon_table fails on the value, get_row returns that error
\* for every index, one of a row that decodes and one past the last row
\* included.
C27_GetRowDecodesAll ==
    (pc = "got_row" /\ ~from_toon_table(Schema, value).ok)
    => got = from_toon_table(Schema, value)

\* the first of two rows decodes, the second does not, and index 0 gets the
\* error of the second row
C27_Witness ==
    /\ pc = "got_row"
    /\ index = 0
    /\ IsTable(value)
    /\ Len(RowsOf(value)) = 2
    /\ Len(Schema) > 0
    /\ \A k \in 1..Len(Schema) :
          PairResult(Schema[k], HeaderOf(value), RowsOf(value)[1]).ok
    /\ \E k \in 1..Len(Schema) :
          ~PairResult(Schema[k], HeaderOf(value), RowsOf(value)[2]).ok
    /\ ~got.ok
    /\ got.err.kind # "RowOutOfBounds"

\* C28: under a schema of pairwise distinct column names, the records R that
\* a table decodes to are a fixpoint: the encoding of R decodes to R; and a
\* value that a cell reads as is read again from its written form.
C28_Fixpoint ==
    /\ (/\ pc = "decoded"
        /\ decoded.ok
        /\ \A i, j \in 1..Len(Schema) : Schema[i].column_name = Schema[j].column_name => i = j)
       => from_toon_table(Schema, to_toon_table(Schema, decoded.val)) = Ok(decoded.val)
    /\ (pc = "read" /\ cell.result.ok)
       => from_toon_value(cell.ty, to_toon_value(cell.ty, cell.result.val)) = cell.result

\* a table that leaves out a defaulted column and holds Null under a String
\* column decodes to a record whose encoding is another table
C28_Witness ==
    /\ pc = "decoded"
    /\ IsTable(value)
    /\ Len(Schema) = 2
    /\ Schema[1].column_name # Schema[2].column_name
    /\ AbsentDefault(HeaderOf(value)) # {}
    /\ \E k \in 1..2 :
          /\ Schema[k].ty = <<"String">>
          /\ Schema[k].column_name \in Range(HeaderOf(value))
    /\ Len(RowsOf(value)) = 1
    /\ RowsOf(value)[1] = ValueArray(<<ValueNull>>)
    /\ decoded.ok
    /\ to_toon_table(Schema, decoded.val) # value

\* a #[toon(..)] attribute of the field holds a key that is not known
UnknownKey(decl) ==
    \E a \in 1..Len(decl.attrs) :
        /\ decl.attrs[a].path = "toon"
        /\ \E m \in 1..Len(decl.attrs[a].metas) :
              decl.attrs[a].metas[m].key \notin {"rename", "skip", "default", "order"}

\* C29: a derive target that is not a struct with named fields, or a field
\* with an unknown key in a #[toon(..)] attribute (a skipped field included),
\* makes the derivation fail with an error and no schema, and no codec call
\* is made on it; otherwise the keys of all the #[toon(..)] attributes of a
\* field add up, the last rename and the last order being the ones in force.
C29_DerivationRejects ==
    /\ pc = "ready"
       => IF \/ input.data # "struct"
             \/ input.fields_kind # "named"
             \/ \E k \in 1..Len(input.fields) : UnknownKey(input.fields[k])
          THEN ~derived.ok /\ DOMAIN derived = {"ok", "err"}
          ELSE /\ derived.ok
               /\ {Schema[k].name : k \in 1..Len(Schema)} =
                      {input.fields[k].name : k \in NonSkipped}
               /\ \A k \in 1..Len(Schema) :
                     LET d == DeclOf(Schema[k].name)
                     IN  /\ Schema[k].column_name = ColumnNameOf(d)
                         /\ Schema[k].default = HasMeta(d, "default")
                         /\ Schema[k].order = IF HasMeta(d, "order")
                                              THEN Some(MetaOf(d, "order").lit_int)
                                              ELSE None
    /\ pc \in {"encoded", "written", "decoded", "got_row", "read"} => derived.ok

\* a field marked skip with an unknown key in a second attribute: the
\* derivation fails
C29_Witness ==
    /\ pc = "ready"
    /\ input.data = "struct"
    /\ input.fields_kind = "named"
    /\ Len(input.fields[1].attrs) = 2
    /\ input.fields[1].attrs[1] = [path |-> "toon", metas |-> <<[key |-> "skip"]>>]
    /\ input.fields[1].attrs[2] = [path |-> "toon", metas |-> <<[key |-> "other"]>>]
    /\ ~derived.ok

\* the message names a direction: deserialization, or serialization by a
\* word that is not part of the word for deserialization
MentionsDeserialization(msg) ==
    contains(msg, <<"d", "e", "s", "e", "r", "i", "a", "l", "i", "z", "e">>) \/ contains(msg, <<"D", "e", "s", "e", "r", "i", "a", "l", "i", "z", "e">>)

MentionsSerialization(msg) ==
    \E i \in 1..(Len(msg) - 8) :
        /\ SubSeq(msg, i, i + 8) \in {<<"s", "e", "r", "i", "a", "l", "i", "z", "e">>, <<"S", "e", "r", "i", "a", "l", "i", "z", "e">>}
        /\ (i < 3 \/ SubSeq(msg, i - 2, i - 1) \notin {<<"d", "e">>, <<"D", "e">>})

\* C30: the conversion of a serde_toon2 error keeps its message; a message
\* that mentions deserialization becomes Error::Deserialize, Error::Serialize
\* is only made of a message that mentions serialization, and a message that
\* mentions neither becomes Error::Deserialize.
C30_ErrorDirection ==
    pc = "converted"
    => /\ converted.error.msg = converted.msg
       /\ MentionsDeserialization(converted.msg) => converted.error.kind = "Deserialize"
       /\ converted.error.kind = "Serialize" => MentionsSerialization(converted.msg)
       /\ (~MentionsDeserialization(converted.msg) /\ ~MentionsSerialization(converted.msg))
          => converted.error.kind = "Deserialize"

====
